---- MODULE Spec2Model ----
(***************************************************************************)
(* Model of the matrix engines of mc458-projeto: the sparse engine         *)
(* MapMatrix over a pluggable store (HashMapStore, TreeStore) behind the   *)
(* lazy TransposableMap, and the dense engine TableMatrix.                 *)
(*                                                                         *)
(* f64 values are modelled by small integers (exact in f64); 0 stands for  *)
(* 0.0.  Option<T> is modelled by a sequence: <<>> is None, <<v>> Some(v). *)
(* A panic (assert_eq!, index out of bounds) is the value Panic.           *)
(***************************************************************************)
EXTENDS Integers, Sequences, FiniteSets, TLC

\* ---------------------------------------------------------------- bounds
\* Largest number of rows and of columns of a matrix.
MaxDim == 2
\* Cell values range over -MaxVal..MaxVal.
MaxVal == 1
\* Largest number of entries of an interchange snapshot given to from_info.
MaxLen == 2
\* Hash seeds 0..MaxSeed: each seed is one iteration order of a HashMap.
MaxSeed == 1
\* Largest number of transposed() calls counted on one matrix.
MaxCalls == 3
\* Threads 1..MaxThreads call into the allocator.
MaxThreads == 2
\* Layout sizes range over 1..MaxSize bytes.
MaxSize == 2
\* Largest number of blocks allocated at one time.
MaxLive == 2
\* The byte counters are followed up to MaxCount.
MaxCount == 3

Idx == 0..(MaxDim - 1)
Pos == Idx \X Idx
Val == (0 - MaxVal)..MaxVal
Sizes == (1..MaxDim) \X (1..MaxDim)
Scalars == Val

Panic == [panic |-> TRUE]
IsPanic(x) == "panic" \in DOMAIN x

\* ------------------------------------------------------- generic helpers
Swap(p) == <<p[2], p[1]>>

RECURSIVE SeqsUpTo(_, _)
\* All sequences over S of length at most n.
SeqsUpTo(S, n) ==
  IF n = 0 THEN {<<>>}
  ELSE LET shorter == SeqsUpTo(S, n - 1)
       IN shorter \cup {Append(s, x) : s \in {t \in shorter : Len(t) = n - 1}, x \in S}

\* ------------------------------------------------- stores (key -> value)
\* A store is a function from its set of keys to values.  Engines are
\* "hash" (HashMapStore), "tree" (TreeStore); a hash store iterates in the
\* order of a seed-dependent hash of the key, a tree store in key order.
EmptyStore == [k \in {} |-> 0]

\* Ord of a Pair key: tuples compare lexicographically.  A usize key is
\* its own Ord.
PairOrd(k) == k[1] * MaxDim + k[2]

\* Stand-in for SipHash under RandomState: a seed-dependent scrambling of
\* the key's Ord.
HashOf(ord, seed) == ((ord + 1) * (2 * seed + 3) + seed) % 7

\* The place of a key of Ord ord in the iteration of a store: key order in
\* a BTreeMap, hash order in a HashMap (equal hashes: later key first).
IterRank(eng, ord) ==
  IF eng.kind = "tree" THEN ord
  ELSE HashOf(ord, eng.seed) * (MaxDim * MaxDim + 1) + (MaxDim * MaxDim - ord)

RECURSIVE KeysInOrder(_, _)
\* The keys of DOMAIN rank by ascending rank.
KeysInOrder(S, rank) ==
  IF S = {} THEN <<>>
  ELSE LET first == CHOOSE k \in S : \A o \in S : rank[k] <= rank[o]
       IN <<first>> \o KeysInOrder(S \ {first}, rank)

PairKeysInOrder(eng, S) ==
  KeysInOrder(S, [k \in S |-> IterRank(eng, PairOrd(k))])

IdxKeysInOrder(eng, S) ==
  KeysInOrder(S, [k \in S |-> IterRank(eng, k)])

\* HashMap::insert / BTreeMap::insert
Store_set_or_insert(store, key, value) ==
  [k \in DOMAIN store \cup {key} |-> IF k = key THEN value ELSE store[k]]

\* HashMap::remove / BTreeMap::remove
Store_remove(store, key) ==
  [k \in DOMAIN store \ {key} |-> store[k]]

\* HashMap::get / BTreeMap::get
Store_get(store, key) ==
  IF key \in DOMAIN store THEN <<store[key]>> ELSE <<>>

\* iter(): the (key, value) pairs in iteration order.
Store_iter(eng, store) ==
  LET ks == PairKeysInOrder(eng, DOMAIN store)
  IN [i \in 1..Len(ks) |-> <<ks[i], store[ks[i]]>>]

RECURSIVE InsertAll(_, _)
\* HashMap::from_iter: the pairs inserted one after the other.
InsertAll(store, items) ==
  IF items = <<>> THEN store
  ELSE InsertAll(Store_set_or_insert(store, items[1][1], items[1][2]), Tail(items))

\* BTreeMap::from_iter: a stable sort by key, then of each run of equal
\* keys the last pair is kept (DedupSortedIter).
TreeFromSorted(items) ==
  LET keys == {items[i][1] : i \in 1..Len(items)}
      lastOf(k) == CHOOSE i \in 1..Len(items) :
                     /\ items[i][1] = k
                     /\ \A j \in 1..Len(items) : items[j][1] = k => j <= i
  IN [k \in keys |-> items[lastOf(k)][2]]

\* Mutant: the first pair of a key is kept (entry(key).or_insert(value)).
Store_from_iter_first(eng, items) ==
  LET keys == {items[i][1] : i \in 1..Len(items)}
      firstOf(k) == CHOOSE i \in 1..Len(items) :
                      /\ items[i][1] = k
                      /\ \A j \in 1..Len(items) : items[j][1] = k => i <= j
  IN [k \in keys |-> items[firstOf(k)][2]]

Store_from_iter(eng, items) ==
  IF eng.kind = "tree" THEN TreeFromSorted(items)
  ELSE InsertAll(EmptyStore, items)

\* add_to_vec: entry(key).or_insert_with(Vec::new).push(value)
Store_add_to_vec(store, key, value) ==
  IF key \in DOMAIN store
  THEN [store EXCEPT ![key] = Append(@, value)]
  ELSE Store_set_or_insert(store, key, <<value>>)

\* --------------------------------------------------------- TransposableMap
TransposableMap_new(map) == [map |-> map, transposed |-> FALSE]

\* Mutant: the flag is set, not flipped.
TransposableMap_transpose_set(tm) == [tm EXCEPT !.transposed = TRUE]

TransposableMap_transpose(tm) == [tm EXCEPT !.transposed = ~tm.transposed]

\* Mutant: the flag is not consulted.
TransposableMap_set_or_insert_noswap(tm, key, value) ==
  [tm EXCEPT !.map = Store_set_or_insert(tm.map, key, value)]

TransposableMap_set_or_insert(tm, key, value) ==
  IF tm.transposed
  THEN [tm EXCEPT !.map = Store_set_or_insert(tm.map, Swap(key), value)]
  ELSE [tm EXCEPT !.map = Store_set_or_insert(tm.map, key, value)]

\* Mutant: the flag is not consulted.
TransposableMap_remove_noswap(tm, key) ==
  [tm EXCEPT !.map = Store_remove(tm.map, key)]

TransposableMap_remove(tm, key) ==
  IF tm.transposed
  THEN [tm EXCEPT !.map = Store_remove(tm.map, Swap(key))]
  ELSE [tm EXCEPT !.map = Store_remove(tm.map, key)]

\* Mutant: the flag is not consulted.
TransposableMap_get_noswap(tm, key) == Store_get(tm.map, key)

TransposableMap_get(tm, key) ==
  IF tm.transposed
  THEN Store_get(tm.map, Swap(key))
  ELSE Store_get(tm.map, key)

TransposableMap_iter(eng, tm) ==
  LET it == Store_iter(eng, tm.map)
  IN IF tm.transposed
     THEN [i \in 1..Len(it) |-> <<Swap(it[i][1]), it[i][2]>>]
     ELSE it

\* Mutant: *value = scalar in place of *value = *value * scalar.
TransposableMap_scale_assign(tm, scalar) ==
  [tm EXCEPT !.map = [k \in DOMAIN tm.map |-> scalar]]

\* iter_mut with *value = f(*value) on every pair: the keys stay.
TransposableMap_scale(tm, scalar) ==
  [tm EXCEPT !.map = [k \in DOMAIN tm.map |-> tm.map[k] * scalar]]

\* --------------------------------------------------------------- MapMatrix
\* A sparse matrix is [size, values]; eng stands for the type parameters
\* T and LM (the store backend).

MapMatrix_new(size) ==
  [size |-> size, values |-> TransposableMap_new(EmptyStore)]

MapMatrix_muls(a, scalar) ==
  [size |-> a.size, values |-> TransposableMap_scale(a.values, scalar)]

MapMatrix_set(m, pos, value) ==
  IF value = 0
  THEN [m EXCEPT !.values = TransposableMap_remove(m.values, pos)]
  ELSE [m EXCEPT !.values = TransposableMap_set_or_insert(m.values, pos, value)]

\* Mutant: a position outside the declared size reads 0.0.
MapMatrix_get_inside(m, pos) ==
  LET o == TransposableMap_get(m.values, pos)
  IN IF o = <<>> \/ pos[1] >= m.size[1] \/ pos[2] >= m.size[2] THEN 0 ELSE o[1]

MapMatrix_get(m, pos) ==
  LET o == TransposableMap_get(m.values, pos)
  IN IF o = <<>> THEN 0 ELSE o[1]

\* Mutant: the entries are moved to their swapped keys and the flag stays.
MapMatrix_transposed_physical(m) ==
  [size |-> Swap(m.size),
   values |-> [m.values EXCEPT !.map =
                 [k \in {Swap(j) : j \in DOMAIN m.values.map} |-> m.values.map[Swap(k)]]]]

MapMatrix_transposed(m) ==
  [size |-> Swap(m.size), values |-> TransposableMap_transpose(m.values)]

RECURSIVE AddLoop(_, _, _)
\* for (pos, vb) in b.values.iter() { c.set(pos, a.get(pos) + vb) }
AddLoop(c, a, bitems) ==
  IF bitems = <<>> THEN c
  ELSE LET pos == bitems[1][1]
           vb == bitems[1][2]
       IN AddLoop(MapMatrix_set(c, pos, MapMatrix_get(a, pos) + vb), a, Tail(bitems))

MapMatrix_add(eng, a, b) ==
  AddLoop([size |-> a.size, values |-> a.values], a,
          TransposableMap_iter(eng, b.values))

RECURSIVE GroupBy(_, _, _)
\* for (pos, v) in items { lm.add_to_vec(pos[comp], (pos, v)) }
GroupBy(lm, items, comp) ==
  IF items = <<>> THEN lm
  ELSE GroupBy(Store_add_to_vec(lm, items[1][1][comp], items[1]), Tail(items), comp)

RECURSIVE MulInner_insert(_, _, _, _, _)
\* Mutant: a direct insert of vb*va in place of the read-modify-write.
MulInner_insert(c, aitem, bvalues, a, b) ==
  IF IsPanic(c) \/ bvalues = <<>> THEN c
  ELSE IF a.size[2] # b.size[1] THEN Panic
  ELSE LET pos == <<aitem[1][1], bvalues[1][1][2]>>
           value == bvalues[1][2] * aitem[2]
       IN MulInner_insert(MapMatrix_set(c, pos, value), aitem, Tail(bvalues), a, b)

RECURSIVE MulInner(_, _, _, _, _)
\* for (bpos, vb) in bvalues { assert_eq!(..); c.set(pos, c.get(pos) + vb*va) }
MulInner(c, aitem, bvalues, a, b) ==
  IF IsPanic(c) \/ bvalues = <<>> THEN c
  ELSE IF a.size[2] # b.size[1] THEN Panic
  ELSE LET pos == <<aitem[1][1], bvalues[1][1][2]>>
           value == MapMatrix_get(c, pos) + bvalues[1][2] * aitem[2]
       IN MulInner(MapMatrix_set(c, pos, value), aitem, Tail(bvalues), a, b)

RECURSIVE MulBucket(_, _, _, _, _)
\* for (apos, va) in avalues { for (bpos, vb) in bvalues { .. } }
MulBucket(c, avalues, bvalues, a, b) ==
  IF IsPanic(c) \/ avalues = <<>> THEN c
  ELSE MulBucket(MulInner(c, avalues[1], bvalues, a, b), Tail(avalues), bvalues, a, b)

RECURSIVE MulOuter(_, _, _, _, _, _)
\* for (i, avalues) in acolumns.iter() { let Some(bvalues) = brows.get(&i)
\* else { continue }; .. }
MulOuter(c, cols, acolumns, brows, a, b) ==
  IF IsPanic(c) \/ cols = <<>> THEN c
  ELSE LET i == cols[1]
           bvalues == Store_get(brows, i)
       IN IF bvalues = <<>>
          THEN MulOuter(c, Tail(cols), acolumns, brows, a, b)
          ELSE MulOuter(MulBucket(c, acolumns[i], bvalues[1], a, b),
                        Tail(cols), acolumns, brows, a, b)

MapMatrix_mul(eng, a, b) ==
  LET acolumns == GroupBy(EmptyStore, TransposableMap_iter(eng, a.values), 2)
      brows == GroupBy(EmptyStore, TransposableMap_iter(eng, b.values), 1)
  IN MulOuter(MapMatrix_new(<<a.size[1], b.size[2]>>),
              IdxKeysInOrder(eng, DOMAIN acolumns), acolumns, brows, a, b)

MapMatrix_to_info(eng, m) ==
  [size |-> m.size, values |-> TransposableMap_iter(eng, m.values)]

MapMatrix_from_info(eng, info) ==
  [size |-> info.size,
   values |-> TransposableMap_new(Store_from_iter(eng, info.values))]

\* ------------------------------------------------------------- TableMatrix
\* A dense matrix is [size, data], data[i][j] for i < size.0, j < size.1
\* (Vec<Vec<f64>>, indices from 0).  Indexing outside a Vec panics.

Ok(v) == [val |-> v]

TableMatrix_new(size) ==
  [size |-> size,
   data |-> [i \in 0..(size[1] - 1) |-> [j \in 0..(size[2] - 1) |-> 0]]]

\* Whether data[r][c] is inside both Vecs.
InVec(data, r, c) == r \in DOMAIN data /\ c \in DOMAIN data[r]

TableMatrix_set(m, pos, value) ==
  IF InVec(m.data, pos[1], pos[2])
  THEN [m EXCEPT !.data[pos[1]][pos[2]] = value]
  ELSE Panic

\* The receiver as a call of set leaves it: indexing outside a Vec panics
\* before anything is stored.
TableMatrix_set_self(m, pos, value) ==
  IF InVec(m.data, pos[1], pos[2])
  THEN [m EXCEPT !.data[pos[1]][pos[2]] = value]
  ELSE m

\* Mutant: data.get(r).and_then(|row| row.get(c)).unwrap_or(0.0)
TableMatrix_get_or_zero(m, pos) ==
  IF InVec(m.data, pos[1], pos[2]) THEN Ok(m.data[pos[1]][pos[2]]) ELSE Ok(0)

TableMatrix_get(m, pos) ==
  IF InVec(m.data, pos[1], pos[2]) THEN Ok(m.data[pos[1]][pos[2]]) ELSE Panic

RECURSIVE FromInfoLoop(_, _)
\* for (pos, value) in info.values { m.data[r][c] = value }
FromInfoLoop(m, items) ==
  IF IsPanic(m) \/ items = <<>> THEN m
  ELSE FromInfoLoop(TableMatrix_set(m, items[1][1], items[1][2]), Tail(items))

TableMatrix_from_info(info) ==
  FromInfoLoop(TableMatrix_new(info.size), info.values)

\* Mutant: the position is pushed as (j, i).
TableMatrix_to_info_swapped(m) ==
  [size |-> m.size,
   values |-> [n \in 1..(m.size[1] * m.size[2]) |->
                 LET i == (n - 1) \div m.size[2]
                     j == (n - 1) % m.size[2]
                 IN <<<<j, i>>, m.data[i][j]>>]]

\* for i in 0..size.0 { for j in 0..size.1 { values.push(((i, j), data[i][j])) } }
TableMatrix_to_info(m) ==
  [size |-> m.size,
   values |-> [n \in 1..(m.size[1] * m.size[2]) |->
                 LET i == (n - 1) \div m.size[2]
                     j == (n - 1) % m.size[2]
                 IN <<<<i, j>>, m.data[i][j]>>]]

\* t.data[j][i] = self.data[i][j] for every cell of self
TableMatrix_transposed(m) ==
  [size |-> Swap(m.size),
   data |-> [j \in 0..(m.size[2] - 1) |-> [i \in 0..(m.size[1] - 1) |-> m.data[i][j]]]]

TableMatrix_muls(a, scalar) ==
  [size |-> a.size,
   data |-> [i \in 0..(a.size[1] - 1) |->
               [j \in 0..(a.size[2] - 1) |-> a.data[i][j] * scalar]]]

RECURSIVE TableMulLoop_assign(_, _, _, _)
\* Mutant: res.data[i][j] = .. in place of +=.
TableMulLoop_assign(res, t, a, b) ==
  LET n == a.size
      i == t \div (n[2] * n[2])
      k == (t \div n[2]) % n[2]
      j == t % n[2]
  IN IF IsPanic(res) \/ t >= n[1] * n[2] * n[2] THEN res
     ELSE IF ~(InVec(a.data, i, k) /\ InVec(b.data, k, j) /\ InVec(res.data, i, j))
     THEN Panic
     ELSE TableMulLoop_assign([res EXCEPT !.data[i][j] = a.data[i][k] * b.data[k][j]],
                              t + 1, a, b)

RECURSIVE TableMulLoop(_, _, _, _)
\* The triple loop i in 0..n.0, k in 0..n.1, j in 0..n.1, step t of it:
\* res.data[i][j] += a.data[i][k] * b.data[k][j]
TableMulLoop(res, t, a, b) ==
  LET n == a.size
      i == t \div (n[2] * n[2])
      k == (t \div n[2]) % n[2]
      j == t % n[2]
  IN IF IsPanic(res) \/ t >= n[1] * n[2] * n[2] THEN res
     ELSE IF ~(InVec(a.data, i, k) /\ InVec(b.data, k, j) /\ InVec(res.data, i, j))
     THEN Panic
     ELSE TableMulLoop([res EXCEPT !.data[i][j] = @ + a.data[i][k] * b.data[k][j]],
                       t + 1, a, b)

TableMatrix_mul(a, b) ==
  IF a.size # b.size THEN Panic
  ELSE TableMulLoop(TableMatrix_new(a.size), 0, a, b)

TableMatrix_add(a, b) ==
  IF a.size # b.size THEN Panic
  ELSE [size |-> a.size,
        data |-> [i \in 0..(a.size[1] - 1) |->
                    [j \in 0..(a.size[2] - 1) |-> a.data[i][j] + b.data[i][j]]]]

\* ------------------------------------------------------------ SimpleMatrix
\* The reference matrix of main(): [size, values], values a HashMap from
\* position to value with no transposition wrapper.

SimpleMatrix_new(size) == [size |-> size, values |-> EmptyStore]

SimpleMatrix_set(m, pos, value) ==
  IF value = 0
  THEN [m EXCEPT !.values = Store_remove(m.values, pos)]
  ELSE [m EXCEPT !.values = Store_set_or_insert(m.values, pos, value)]

SimpleMatrix_get(m, pos) ==
  LET o == Store_get(m.values, pos)
  IN IF o = <<>> THEN 0 ELSE o[1]

RECURSIVE SimpleFromLoop(_, _)
\* for (pos, value) in info.values { matrix.set(pos, value); }
SimpleFromLoop(m, items) ==
  IF items = <<>> THEN m
  ELSE SimpleFromLoop(SimpleMatrix_set(m, items[1][1], items[1][2]), Tail(items))

\* impl From<MatrixInfo> for SimpleMatrix
SimpleMatrix_from(info) == SimpleFromLoop(SimpleMatrix_new(info.size), info.values)

RECURSIVE SimpleAddLoop(_, _, _)
\* for (pos, va) in a.values.iter() { c.set(pos, b.get(pos) + va) }
SimpleAddLoop(c, aitems, b) ==
  IF aitems = <<>> THEN c
  ELSE LET pos == aitems[1][1]
           va == aitems[1][2]
       IN SimpleAddLoop(SimpleMatrix_set(c, pos, SimpleMatrix_get(b, pos) + va),
                        Tail(aitems), b)

\* The loop writes each key of a once, so the iteration order of the
\* HashMap (here that of seed 0) does not show in the result.
SimpleMatrix_add(a, b) ==
  SimpleAddLoop(SimpleMatrix_new(a.size),
                Store_iter([kind |-> "hash", seed |-> 0], a.values), b)

\* ------------------------------------------------------- trait Matrix
\* The engine eng = [kind, seed] stands for the implementing type M:
\* "table" is TableMatrix, "hash" HashMapMatrix, "tree" TreeMatrix.
\* get answers Ok(value) or Panic; the others a matrix or Panic.

Matrix_new(eng, size) ==
  IF eng.kind = "table" THEN TableMatrix_new(size) ELSE MapMatrix_new(size)

Matrix_set(eng, m, pos, value) ==
  IF eng.kind = "table" THEN TableMatrix_set(m, pos, value)
  ELSE MapMatrix_set(m, pos, value)

\* The receiver after set(&mut self, ..), whether or not the call panicked.
Matrix_set_self(eng, m, pos, value) ==
  IF eng.kind = "table" THEN TableMatrix_set_self(m, pos, value)
  ELSE MapMatrix_set(m, pos, value)

Matrix_get(eng, m, pos) ==
  IF eng.kind = "table" THEN TableMatrix_get(m, pos)
  ELSE Ok(MapMatrix_get(m, pos))

Matrix_transposed(eng, m) ==
  IF eng.kind = "table" THEN TableMatrix_transposed(m)
  ELSE MapMatrix_transposed(m)

Matrix_add(eng, x, y) ==
  IF eng.kind = "table" THEN TableMatrix_add(x, y) ELSE MapMatrix_add(eng, x, y)

Matrix_mul(eng, x, y) ==
  IF eng.kind = "table" THEN TableMatrix_mul(x, y) ELSE MapMatrix_mul(eng, x, y)

Matrix_muls(eng, m, scalar) ==
  IF eng.kind = "table" THEN TableMatrix_muls(m, scalar)
  ELSE MapMatrix_muls(m, scalar)

Matrix_from_info(eng, info) ==
  IF eng.kind = "table" THEN TableMatrix_from_info(info)
  ELSE MapMatrix_from_info(eng, info)

Matrix_to_info(eng, m) ==
  IF eng.kind = "table" THEN TableMatrix_to_info(m)
  ELSE MapMatrix_to_info(eng, m)

\* ------------------------------------------------------------- the session
\* One caller drives one engine through the Matrix trait, as the benchmark
\* harness does: a is the matrix an operation is called on (kept as it was
\* before the call), b the second operand of add and mul and, after set,
\* the receiver as the call left it, c what the call returned or, for set,
\* the matrix after the call (Panic if it panicked).  op names the last
\* call and arg holds its other arguments.
VARIABLES eng, a, b, c, op, arg

\* The cross-check of main(): the two generated snapshots and the product
\* snapshot of each engine computed so far.
VARIABLES ainfo, binfo, res

\* The number of transposed() calls that led to the matrix the caller holds
\* (c after transposed, a otherwise) since it was constructed.
VARIABLES calls

\* The allocation tracker of alloc.rs: the two global counters, the blocks
\* the system allocator has handed out (heap[s] blocks of s bytes that no
\* call is working on), and the position of every thread inside the
\* allocator or inside reset() and stats().  quiet is history: a reset() has
\* returned and no allocation or deallocation has taken a step since.
VARIABLES ALLOC, DEALLOC, heap, thread, quiet

tracker == <<ALLOC, DEALLOC, heap, thread, quiet>>
vars == <<eng, a, b, c, op, arg, ainfo, binfo, res, calls,
          ALLOC, DEALLOC, heap, thread, quiet>>
cross == <<ainfo, binfo, res>>

Threads == 1..MaxThreads
LayoutSizes == 1..MaxSize
Idle == [pc |-> "idle"]

\* static ALLOC / DEALLOC: AtomicUsize = AtomicUsize::new(0), no block
\* allocated, every thread outside the allocator.
TrackerInit ==
  /\ ALLOC = 0
  /\ DEALLOC = 0
  /\ heap = [s \in LayoutSizes |-> 0]
  /\ thread = [t \in Threads |-> Idle]
  /\ quiet = FALSE

None == [none |-> TRUE]
IsMatrix(x) == "size" \in DOMAIN x /\ ("values" \in DOMAIN x \/ "data" \in DOMAIN x)
IsSparse == eng.kind # "table"

Engines ==
  {[kind |-> "table", seed |-> 0], [kind |-> "tree", seed |-> 0]}
    \cup {[kind |-> "hash", seed |-> s] : s \in 0..MaxSeed}

Entries == Pos \X Val
Infos == {[size |-> sz, values |-> vs] : sz \in Sizes, vs \in SeqsUpTo(Entries, MaxLen)}

\* The logical positions a matrix holds an entry for: the stored keys of a
\* sparse matrix (seen through the flag), the non-zero cells of a dense one.
Stored(m) ==
  IF "values" \in DOMAIN m
  THEN {IF m.values.transposed THEN Swap(k) ELSE k : k \in DOMAIN m.values.map}
  ELSE {p \in (DOMAIN m.data) \X (0..(m.size[2] - 1)) : m.data[p[1]][p[2]] # 0}

Init ==
  /\ eng \in Engines
  /\ a = None
  /\ b = None
  /\ c = None
  /\ op = "start"
  /\ arg = <<>>
  /\ ainfo = None /\ binfo = None /\ res = None
  /\ calls = 0
  /\ TrackerInit

\* The constructors are called before any matrix exists.
DoNew ==
  \E size \in Sizes :
    /\ op = "start"
    /\ c' = Matrix_new(eng, size)
    /\ op' = "new"
    /\ arg' = size
    /\ UNCHANGED <<eng, a, b, cross, calls, tracker>>

DoFromInfo ==
  \E info \in Infos :
    /\ op = "start"
    /\ a' = None
    /\ c' = Matrix_from_info(eng, info)
    /\ op' = "from_info"
    /\ arg' = info
    /\ UNCHANGED <<eng, b, cross, calls, tracker>>

DoSet ==
  \E pos \in Pos, value \in Val :
    /\ op = "continue"
    /\ c' = Matrix_set(eng, a, pos, value)
    /\ b' = Matrix_set_self(eng, a, pos, value)
    /\ op' = "set"
    /\ arg' = <<pos, value>>
    /\ UNCHANGED <<eng, a, cross, calls, tracker>>

DoGet ==
  \E pos \in Pos :
    /\ op = "continue"
    /\ c' = Matrix_get(eng, a, pos)
    /\ op' = "get"
    /\ arg' = pos
    /\ UNCHANGED <<eng, a, b, cross, calls, tracker>>

DoTransposed ==
  /\ op = "continue"
  /\ calls < MaxCalls
  /\ c' = Matrix_transposed(eng, a)
  /\ op' = "transposed"
  /\ arg' = <<>>
  /\ calls' = calls + 1
  /\ UNCHANGED <<eng, a, b, cross, tracker>>

\* M.transposed().transposed()
DoTransposedAgain ==
  /\ op = "transposed"
  /\ calls < MaxCalls
  /\ c' = Matrix_transposed(eng, c)
  /\ op' = "transposed_twice"
  /\ calls' = calls + 1
  /\ UNCHANGED <<eng, a, b, arg, cross, tracker>>

DoMuls ==
  \E scalar \in Scalars :
    /\ op = "continue"
    /\ c' = Matrix_muls(eng, a, scalar)
    /\ op' = "muls"
    /\ arg' = scalar
    /\ UNCHANGED <<eng, a, b, cross, calls, tracker>>

\* M::muls(&M::muls(&m, s1), s2)
DoMulsAgain ==
  \E scalar \in Scalars :
    /\ op = "muls"
    /\ c' = Matrix_muls(eng, c, scalar)
    /\ op' = "muls_twice"
    /\ arg' = <<arg, scalar>>
    /\ UNCHANGED <<eng, a, b, cross, calls, tracker>>

DoToInfo ==
  /\ op = "continue"
  /\ c' = Matrix_to_info(eng, a)
  /\ op' = "to_info"
  /\ arg' = <<>>
  /\ UNCHANGED <<eng, a, b, cross, calls, tracker>>

\* M::from_info(&M.to_info())
DoFromToInfo ==
  /\ op = "to_info"
  /\ c' = Matrix_from_info(eng, c)
  /\ op' = "from_to_info"
  /\ UNCHANGED <<eng, a, b, arg, cross, calls, tracker>>

\* M::from_info(&M.to_info()).to_info()
DoRoundTrip ==
  /\ op = "from_to_info"
  /\ IsMatrix(c)
  /\ c' = Matrix_to_info(eng, c)
  /\ op' = "round_trip"
  /\ UNCHANGED <<eng, a, b, arg, cross, calls, tracker>>

\* The caller goes on with the matrix it got (no more than MaxLen entries).
Continue ==
  /\ op \in {"new", "from_info", "set", "transposed", "muls"}
  /\ IsMatrix(c)
  /\ Cardinality(Stored(c)) <= MaxLen
  /\ a' = c
  /\ b' = None
  /\ c' = None
  /\ op' = "continue"
  /\ arg' = <<>>
  /\ UNCHANGED <<eng, cross, calls, tracker>>

Next ==
  \/ DoNew
  \/ DoFromInfo
  \/ DoSet
  \/ DoGet
  \/ DoTransposed
  \/ DoTransposedAgain
  \/ DoMuls
  \/ DoMulsAgain
  \/ DoToInfo
  \/ DoFromToInfo
  \/ DoRoundTrip
  \/ Continue

Spec == Init /\ [][Next]_vars

\* ------------------------------------------------------ two operands
\* add and mul take two matrices of one engine.  The operands are the
\* matrices from_info builds from a snapshot whose positions lie inside its
\* size, and their transposes.
InSize(pos, size) == pos[1] < size[1] /\ pos[2] < size[2]

\* The cells of a matrix of the given size.
Cells(size) == {p \in Pos : InSize(p, size)}

InRangeInfos ==
  {info \in Infos :
     \A i \in 1..Len(info.values) : InSize(info.values[i][1], info.size)}

Operands(e) ==
  LET built == {Matrix_from_info(e, info) : info \in InRangeInfos}
  IN built \cup {Matrix_transposed(e, m) : m \in built}

InitPair ==
  /\ eng \in Engines
  /\ a \in Operands(eng)
  /\ b \in Operands(eng)
  /\ c = None
  /\ op = "start"
  /\ arg = <<>>
  /\ ainfo = None /\ binfo = None /\ res = None
  /\ calls = 0
  /\ TrackerInit

DoAdd ==
  /\ op = "start"
  /\ c' = Matrix_add(eng, a, b)
  /\ op' = "add"
  /\ UNCHANGED <<eng, a, b, arg, cross, calls, tracker>>

DoMul ==
  /\ op = "start"
  /\ c' = Matrix_mul(eng, a, b)
  /\ op' = "mul"
  /\ UNCHANGED <<eng, a, b, arg, cross, calls, tracker>>

\* add(&a, &b) and add(&b, &a) on the same two operands.
DoAddBoth ==
  /\ op = "start"
  /\ c' = [ab |-> Matrix_add(eng, a, b), ba |-> Matrix_add(eng, b, a)]
  /\ op' = "add_both"
  /\ UNCHANGED <<eng, a, b, arg, cross, calls, tracker>>

NextPair ==
  \/ DoAdd
  \/ DoMul
  \/ DoAddBoth

SpecPair == InitPair /\ [][NextPair]_vars

\* ------------------------------------------------------ the cross-check
\* fn mul<M: Matrix>(ainfo, binfo) -> MatrixInfo
HelperMul(e, ai, bi) ==
  LET fa == Matrix_from_info(e, ai)
      fb == Matrix_from_info(e, bi)
  IN IF IsPanic(fa) \/ IsPanic(fb) THEN Panic
     ELSE LET prod == Matrix_mul(e, Matrix_transposed(e, fb), Matrix_transposed(e, fa))
          IN IF IsPanic(prod) THEN Panic ELSE Matrix_to_info(e, prod)

TableEngine == [kind |-> "table", seed |-> 0]
TreeEngine == [kind |-> "tree", seed |-> 0]

\* gen_matrix_info(size, density) gives positions inside size; main()
\* generates two square snapshots of one side.
SquareInfos(n) == {info \in InRangeInfos : info.size = <<n, n>>}

InitCross ==
  /\ eng \in {[kind |-> "hash", seed |-> s] : s \in 0..MaxSeed}
  /\ a = None /\ b = None /\ c = None
  /\ op = "generated"
  /\ arg = <<>>
  /\ \E n \in 1..MaxDim : ainfo \in SquareInfos(n) /\ binfo \in SquareInfos(n)
  /\ res = <<>>
  /\ calls = 0
  /\ TrackerInit

\* let res1 = mul::<dense>(&ainfo, &binfo)
CrossDense ==
  /\ op = "generated"
  /\ res' = <<HelperMul(TableEngine, ainfo, binfo)>>
  /\ op' = "res1"
  /\ UNCHANGED <<eng, a, b, c, arg, ainfo, binfo, calls, tracker>>

\* let res2 = mul::<HashMapMatrix>(&ainfo, &binfo)
CrossHash ==
  /\ op = "res1"
  /\ res' = Append(res, HelperMul(eng, ainfo, binfo))
  /\ op' = "res2"
  /\ UNCHANGED <<eng, a, b, c, arg, ainfo, binfo, calls, tracker>>

\* let res3 = mul::<TreeMatrix>(&ainfo, &binfo)
CrossTree ==
  /\ op = "res2"
  /\ res' = Append(res, HelperMul(TreeEngine, ainfo, binfo))
  /\ op' = "res3"
  /\ UNCHANGED <<eng, a, b, c, arg, ainfo, binfo, calls, tracker>>

NextCross ==
  \/ CrossDense
  \/ CrossHash
  \/ CrossTree

SpecCross == InitCross /\ [][NextCross]_vars

\* ------------------------------------------- sparse and dense in step
\* One sequence of calls is applied to a sparse matrix (a) and to a dense
\* matrix (b), both made by new with one size.
SparseEngines == {e \in Engines : e.kind # "table"}

InitLock ==
  /\ eng \in SparseEngines
  /\ a = None /\ b = None /\ c = None
  /\ op = "start"
  /\ arg = <<>>
  /\ ainfo = None /\ binfo = None /\ res = None
  /\ calls = 0
  /\ TrackerInit

LockNew ==
  \E size \in Sizes :
    /\ op = "start"
    /\ a' = MapMatrix_new(size)
    /\ b' = TableMatrix_new(size)
    /\ op' = "new"
    /\ arg' = size
    /\ UNCHANGED <<eng, c, cross, calls, tracker>>

\* set(pos, value) with pos inside the current dimensions
LockSet ==
  \E pos \in Pos, value \in Val :
    /\ op # "start" /\ IsMatrix(b)
    /\ InSize(pos, a.size)
    /\ a' = MapMatrix_set(a, pos, value)
    /\ b' = TableMatrix_set(b, pos, value)
    /\ op' = "set"
    /\ arg' = <<pos, value>>
    /\ UNCHANGED <<eng, c, cross, calls, tracker>>

LockTransposed ==
  /\ op # "start" /\ IsMatrix(b)
  /\ calls < MaxCalls
  /\ a' = MapMatrix_transposed(a)
  /\ b' = TableMatrix_transposed(b)
  /\ op' = "transposed"
  /\ arg' = <<>>
  /\ calls' = calls + 1
  /\ UNCHANGED <<eng, c, cross, tracker>>

\* muls(_, scalar), while the scaled values stay among the values followed
LockMuls ==
  \E scalar \in Scalars :
    /\ op # "start" /\ IsMatrix(b)
    /\ \A p \in Cells(b.size) : b.data[p[1]][p[2]] * scalar \in Val
    /\ a' = MapMatrix_muls(a, scalar)
    /\ b' = TableMatrix_muls(b, scalar)
    /\ op' = "muls"
    /\ arg' = scalar
    /\ UNCHANGED <<eng, c, cross, calls, tracker>>

NextLock ==
  \/ LockNew
  \/ LockSet
  \/ LockTransposed
  \/ LockMuls

SpecLock == InitLock /\ [][NextLock]_vars

\* ------------------------------------------------- comparing snapshots
\* EPSILON is 1e-8; the values of the model are integers, and two integers
\* differ by more than 1e-8 exactly when they differ by more than 0.
EPSILON == 0

Abs(x) == IF x < 0 THEN 0 - x ELSE x

\* let mut exp_map = HashMap::new();
\* for (pos, value) in expected.values.iter() { exp_map.insert(pos, value); }
ExpMap(expected) == InsertAll(EmptyStore, expected.values)

RECURSIVE InfoEqLoop(_, _)
\* for (pos, value) in current.values.iter() { match exp_map.get(pos) { .. } }
\* with its two early returns of false.
InfoEqLoop(exp_map, items) ==
  IF items = <<>> THEN TRUE
  ELSE LET v == Store_get(exp_map, items[1][1])
       IN IF v = <<>> THEN FALSE
          ELSE IF Abs(v[1] - items[1][2]) > EPSILON THEN FALSE
          ELSE InfoEqLoop(exp_map, Tail(items))

info_eq(expected, current) ==
  IF expected.size # current.size THEN FALSE
  ELSE InfoEqLoop(ExpMap(expected), current.values)

RECURSIVE DiffLoop(_, _, _)
\* The loop of diff over current.values: an item (pos, (expected, current))
\* is pushed for a value beyond the tolerance and for a position exp_map
\* lacks.
DiffLoop(out, exp_map, items) ==
  IF items = <<>> THEN out
  ELSE LET pos == items[1][1]
           value == items[1][2]
           v == Store_get(exp_map, pos)
       IN IF v = <<>>
          THEN DiffLoop(Append(out, <<pos, <<<<>>, <<value>>>>>>), exp_map, Tail(items))
          ELSE IF Abs(v[1] - value) > EPSILON
          THEN DiffLoop(Append(out, <<pos, <<<<v[1]>>, <<value>>>>>>), exp_map, Tail(items))
          ELSE DiffLoop(out, exp_map, Tail(items))

diff(expected, current) ==
  DiffLoop(<<>>, ExpMap(expected), current.values)

\* The two snapshots handed to info_eq and diff: ainfo is expected, binfo
\* current.
InitInfo ==
  /\ eng = TreeEngine
  /\ a = None /\ b = None /\ c = None
  /\ op = "snapshots"
  /\ arg = <<>>
  /\ ainfo \in InRangeInfos
  /\ binfo \in InRangeInfos
  /\ res = <<>>
  /\ calls = 0
  /\ TrackerInit

\* info_eq(&expected, &current), and with the arguments exchanged
DoInfoEq ==
  /\ op = "snapshots"
  /\ res' = [eq |-> info_eq(ainfo, binfo), rev |-> info_eq(binfo, ainfo)]
  /\ op' = "info_eq"
  /\ UNCHANGED <<eng, a, b, c, arg, ainfo, binfo, calls, tracker>>

\* diff(&expected, &current)
DoDiff ==
  /\ op = "snapshots"
  /\ res' = diff(ainfo, binfo)
  /\ op' = "diff"
  /\ UNCHANGED <<eng, a, b, c, arg, ainfo, binfo, calls, tracker>>

\* SimpleMatrix::add(&a, &b) on the matrices of the two snapshots
DoSimpleAdd ==
  /\ op = "snapshots"
  /\ a' = SimpleMatrix_from(ainfo)
  /\ b' = SimpleMatrix_from(binfo)
  /\ c' = SimpleMatrix_add(SimpleMatrix_from(ainfo), SimpleMatrix_from(binfo))
  /\ op' = "simple_add"
  /\ UNCHANGED <<eng, arg, cross, calls, tracker>>

NextInfo ==
  \/ DoInfoEq
  \/ DoDiff
  \/ DoSimpleAdd

SpecInfo == InitInfo /\ [][NextInfo]_vars

\* ------------------------------------------------ the allocation tracker
\* Every thread may call the global allocator (alloc, dealloc), reset() and
\* stats(); each atomic access of a counter and each call of the system
\* allocator is one step.
session == <<eng, a, b, c, op, arg, cross, calls>>

RECURSIVE HeapBytes(_)
\* The bytes of the blocks of sizes ss in heap.
HeapBytes(ss) ==
  IF ss = {} THEN 0
  ELSE LET z == CHOOSE z \in ss : TRUE
       IN z * heap[z] + HeapBytes(ss \ {z})

RECURSIVE HeapBlocks(_)
HeapBlocks(ss) ==
  IF ss = {} THEN 0
  ELSE LET z == CHOOSE z \in ss : TRUE
       IN heap[z] + HeapBlocks(ss \ {z})

\* A thread between System.alloc and the return of alloc, or between the
\* entry of dealloc and System.dealloc, holds an allocated block.
Holds(t) == thread[t].pc \in {"record_alloc", "system_dealloc"}

\* The bytes allocated and not yet deallocated: those of the blocks a
\* returned alloc has handed out and no dealloc has been called on.
InUse == HeapBytes(LayoutSizes)

InitAlloc ==
  /\ eng = TreeEngine
  /\ a = None /\ b = None /\ c = None
  /\ op = "start"
  /\ arg = <<>>
  /\ ainfo = None /\ binfo = None /\ res = None
  /\ calls = 0
  /\ TrackerInit

\* alloc: let p = System.alloc(layout)
SystemAlloc(t) ==
  \E size \in LayoutSizes :
    /\ thread[t].pc = "idle"
    /\ HeapBlocks(LayoutSizes) + Cardinality({u \in Threads : Holds(u)}) < MaxLive
    /\ ALLOC + size <= MaxCount
    /\ thread' = [thread EXCEPT ![t] = [pc |-> "record_alloc", size |-> size]]
    /\ quiet' = FALSE
    /\ UNCHANGED <<ALLOC, DEALLOC, heap, session>>

\* alloc: record_alloc(layout); p
RecordAlloc(t) ==
  /\ thread[t].pc = "record_alloc"
  /\ ALLOC' = ALLOC + thread[t].size
  /\ heap' = [heap EXCEPT ![thread[t].size] = @ + 1]
  /\ thread' = [thread EXCEPT ![t] = Idle]
  /\ quiet' = FALSE
  /\ UNCHANGED <<DEALLOC, session>>

\* dealloc: record_dealloc(layout), for a block allocated earlier
RecordDealloc(t) ==
  \E size \in LayoutSizes :
    /\ thread[t].pc = "idle"
    /\ heap[size] > 0
    /\ DEALLOC + size <= MaxCount
    /\ heap' = [heap EXCEPT ![size] = @ - 1]
    /\ DEALLOC' = DEALLOC + size
    /\ thread' = [thread EXCEPT ![t] = [pc |-> "system_dealloc", size |-> size]]
    /\ quiet' = FALSE
    /\ UNCHANGED <<ALLOC, session>>

\* dealloc: System.dealloc(ptr, layout)
SystemDealloc(t) ==
  /\ thread[t].pc = "system_dealloc"
  /\ thread' = [thread EXCEPT ![t] = Idle]
  /\ quiet' = FALSE
  /\ UNCHANGED <<ALLOC, DEALLOC, heap, session>>

\* reset: ALLOC.store(0)
ResetAlloc(t) ==
  /\ thread[t].pc = "idle"
  /\ ALLOC' = 0
  /\ thread' = [thread EXCEPT ![t] = [pc |-> "reset_dealloc"]]
  /\ UNCHANGED <<DEALLOC, heap, quiet, session>>

\* reset: DEALLOC.store(0), and the return
ResetDealloc(t) ==
  /\ thread[t].pc = "reset_dealloc"
  /\ DEALLOC' = 0
  /\ thread' = [thread EXCEPT ![t] = Idle]
  /\ quiet' = TRUE
  /\ UNCHANGED <<ALLOC, heap, session>>

\* stats: let alloc = ALLOC.load()
StatsLoadAlloc(t) ==
  /\ thread[t].pc = "idle"
  /\ thread' = [thread EXCEPT ![t] =
                  [pc |-> "stats_dealloc", alloc |-> ALLOC, clean |-> quiet]]
  /\ UNCHANGED <<ALLOC, DEALLOC, heap, quiet, session>>

\* stats: let dealloc = DEALLOC.load(); diff = alloc as isize - dealloc as
\* isize; Stats { alloc, dealloc, diff }.  inuse and clean are history: the
\* bytes in use at this moment, and whether the whole call ran after a
\* reset() with no allocation or deallocation step in between.
StatsLoadDealloc(t) ==
  /\ thread[t].pc = "stats_dealloc"
  /\ thread' = [thread EXCEPT ![t] =
                  [pc |-> "stats_ret",
                   stats |-> [alloc |-> thread[t].alloc,
                              dealloc |-> DEALLOC,
                              diff |-> thread[t].alloc - DEALLOC],
                   inuse |-> InUse,
                   clean |-> thread[t].clean /\ quiet]]
  /\ UNCHANGED <<ALLOC, DEALLOC, heap, quiet, session>>

\* The caller of stats takes the result.
StatsReturn(t) ==
  /\ thread[t].pc = "stats_ret"
  /\ thread' = [thread EXCEPT ![t] = Idle]
  /\ UNCHANGED <<ALLOC, DEALLOC, heap, quiet, session>>

NextAlloc ==
  \E t \in Threads :
    \/ SystemAlloc(t)
    \/ RecordAlloc(t)
    \/ RecordDealloc(t)
    \/ SystemDealloc(t)
    \/ ResetAlloc(t)
    \/ ResetDealloc(t)
    \/ StatsLoadAlloc(t)
    \/ StatsLoadDealloc(t)
    \/ StatsReturn(t)

SpecAlloc == InitAlloc /\ [][NextAlloc]_vars

\* ------------------------------------------------------------ properties
\* What get answers, for a call that does not panic.
GetVal(e, m, pos) == Matrix_get(e, m, pos).val

\* The value a snapshot gives a position: that of its last entry for the
\* position, 0 when it lists none.
InfoGet(info, pos) ==
  LET at == {i \in 1..Len(info.values) : info.values[i][1] = pos}
  IN IF at = {} THEN 0
     ELSE info.values[CHOOSE i \in at : \A j \in at : j <= i][2]

\* The positions a snapshot lists, and its position-to-value mapping.
InfoPositions(info) == {info.values[i][1] : i \in 1..Len(info.values)}
InfoMap(info) == [p \in InfoPositions(info) |-> InfoGet(info, p)]

RECURSIVE SumOver(_, _, _, _)
\* The sum over k in ks of x.get((i,k)) * y.get((k,j)).
SumOver(ks, x, y, p) ==
  IF ks = {} THEN 0
  ELSE LET k == CHOOSE k \in ks : TRUE
       IN MapMatrix_get(x, <<p[1], k>>) * MapMatrix_get(y, <<k, p[2]>>)
            + SumOver(ks \ {k}, x, y, p)

\* C1: sparse mul(a, b) with a.columns = b.rows returns a matrix of
\* dimensions (a.rows, b.columns) whose get at every cell (i,j) is the sum
\* over k of a.get((i,k)) * b.get((k,j)).
C1_MulIsProduct ==
  (op = "mul" /\ IsSparse /\ a.size[2] = b.size[1]) =>
    /\ IsMatrix(c)
    /\ c.size = <<a.size[1], b.size[2]>>
    /\ \A p \in Pos : MapMatrix_get(c, p) = SumOver(Idx, a, b, p)

\* A hash-backed product of a transposed a and an untransposed b in which
\* two k-indices contribute to one cell.
C1_Witness ==
  /\ op = "mul" /\ eng.kind = "hash" /\ a.size[2] = b.size[1]
  /\ a.values.transposed /\ ~b.values.transposed
  /\ IsMatrix(c)
  /\ \E p \in Pos : \E k1, k2 \in Idx :
       /\ k1 # k2
       /\ MapMatrix_get(a, <<p[1], k1>>) * MapMatrix_get(b, <<k1, p[2]>>) # 0
       /\ MapMatrix_get(a, <<p[1], k2>>) * MapMatrix_get(b, <<k2, p[2]>>) # 0
       /\ MapMatrix_get(c, p) # 0

\* C2: on two square snapshots of one side the dense, the hash and the
\* tree engine compute products of the same dimensions that agree at every
\* cell.
C2_EnginesAgree ==
  op = "res3" =>
    /\ \A i \in 1..3 : ~IsPanic(res[i])
    /\ res[1].size = res[2].size /\ res[1].size = res[3].size
    /\ \A p \in Cells(res[1].size) :
         /\ InfoGet(res[1], p) = InfoGet(res[2], p)
         /\ InfoGet(res[1], p) = InfoGet(res[3], p)

\* The three products of two 2 x 2 snapshots, with a cell two k-indices add
\* up in.
C2_Witness ==
  /\ op = "res3"
  /\ ainfo.size = <<2, 2>>
  /\ ~IsPanic(res[1])
  /\ \E p \in Cells(res[1].size) : InfoGet(res[3], p) = 2

\* C3: no sparse matrix reachable through new, from_info, set, transposed
\* and muls stores an entry of value 0.
C3_NoStoredZero ==
  IsSparse =>
    \A m \in {x \in {a, c} : IsMatrix(x)} :
      \A k \in DOMAIN m.values.map : m.values.map[k] # 0

\* C4: sparse muls(a, s) has the dimensions of a, get(p) = s * a.get(p) at
\* every position, and stores no entry whose scaled value is 0.
C4_MulsDropsZeros ==
  (op = "muls" /\ IsSparse) =>
    /\ c.size = a.size
    /\ \A p \in Pos : MapMatrix_get(c, p) = arg * MapMatrix_get(a, p)
    /\ \A k \in DOMAIN c.values.map : c.values.map[k] # 0

\* C5: sparse set(pos, 0.0) in either transposition state: afterwards
\* get(pos) = 0, to_info lists no entry for pos, and no more entries are
\* stored than before the call.
C5_SetZeroRemoves ==
  (op = "set" /\ IsSparse /\ arg[2] = 0) =>
    /\ MapMatrix_get(c, arg[1]) = 0
    /\ arg[1] \notin InfoPositions(MapMatrix_to_info(eng, c))
    /\ Cardinality(DOMAIN c.values.map) <= Cardinality(DOMAIN a.values.map)

\* set(pos, 0.0) on a transposed matrix that stored a non-zero entry at an
\* off-diagonal pos.
C5_Witness ==
  /\ op = "set" /\ IsSparse /\ arg[2] = 0
  /\ a.values.transposed
  /\ arg[1][1] # arg[1][2]
  /\ MapMatrix_get(a, arg[1]) # 0
  /\ Cardinality(DOMAIN c.values.map) < Cardinality(DOMAIN a.values.map)

\* C6: in every engine M.transposed() has the dimensions of M swapped and
\* M.transposed().get((c,r)) = M.get((r,c)) at every cell (r,c) of M.
C6_TransposedGet ==
  op = "transposed" =>
    /\ c.size = Swap(a.size)
    /\ \A p \in Cells(a.size) : GetVal(eng, c, Swap(p)) = GetVal(eng, a, p)

\* The transpose of a non-square matrix with a non-zero entry off the
\* diagonal.
C6_Witness ==
  /\ op = "transposed"
  /\ a.size[1] # a.size[2]
  /\ \E p \in Cells(a.size) : p[1] # p[2] /\ GetVal(eng, a, p) # 0

\* C7: in every engine M.transposed().transposed() has the dimensions of M
\* and to_info gives the same position-to-value mapping.
C7_TransposedTwice ==
  op = "transposed_twice" =>
    /\ c.size = a.size
    /\ InfoMap(Matrix_to_info(eng, c)) = InfoMap(Matrix_to_info(eng, a))

\* Two transpositions of a sparse non-square matrix with an entry off the
\* diagonal.
C7_Witness ==
  /\ op = "transposed_twice" /\ IsSparse
  /\ a.size[1] # a.size[2]
  /\ \E p \in Stored(a) : p[1] # p[2] /\ MapMatrix_get(a, p) # 0

\* C8: in every engine from_info(M.to_info()).to_info() has the dimensions
\* and the position-to-value entries of M.to_info().
C8_RoundTrip ==
  op = "round_trip" =>
    /\ c.size = Matrix_to_info(eng, a).size
    /\ InfoMap(c) = InfoMap(Matrix_to_info(eng, a))

\* The round trip of a transposed sparse matrix with an entry off the
\* diagonal.
C8_Witness ==
  /\ op = "round_trip" /\ IsSparse
  /\ a.values.transposed
  /\ \E p \in Stored(a) : p[1] # p[2] /\ MapMatrix_get(a, p) # 0

\* C9: in every engine from_info gives a matrix whose get at a position is
\* the value of the snapshot's last entry for it, and 0 at every position
\* the snapshot does not list (dense: at the cells of the matrix).
C9_LastWriteWins ==
  (op = "from_info" /\ IsMatrix(c)) =>
    \A p \in (IF IsSparse THEN Pos ELSE Cells(c.size)) :
      GetVal(eng, c, p) = InfoGet(arg, p)

\* A snapshot that lists one position twice, with different values.
C9_Witness ==
  /\ op = "from_info" /\ IsMatrix(c)
  /\ Len(arg.values) = 2
  /\ arg.values[1][1] = arg.values[2][1]
  /\ arg.values[1][2] # arg.values[2][2]
  /\ arg.values[2][2] # 0

\* C10: sparse add(a, b) on equal dimensions has the dimensions of a,
\* get(p) = a.get(p) + b.get(p) at every position, and stores exactly the
\* positions stored in a or in b whose sum is not 0.
C10_AddStoresNonZeroSums ==
  (op = "add" /\ IsSparse /\ a.size = b.size) =>
    /\ c.size = a.size
    /\ \A p \in Pos : MapMatrix_get(c, p) = MapMatrix_get(a, p) + MapMatrix_get(b, p)
    /\ Stored(c) = {p \in Stored(a) \cup Stored(b) :
                      MapMatrix_get(a, p) + MapMatrix_get(b, p) # 0}

\* C11: in every engine, for a and b of equal dimensions, add(a, b) and
\* add(b, a) have the same dimensions and the same to_info entries (the
\* same positions with the same values).
C11_AddCommutes ==
  (op = "add_both" /\ a.size = b.size) =>
    /\ IsMatrix(c.ab) /\ IsMatrix(c.ba)
    /\ c.ab.size = c.ba.size
    /\ InfoMap(Matrix_to_info(eng, c.ab)) = InfoMap(Matrix_to_info(eng, c.ba))

C13_SparseMulMismatchPanics ==
  (op = "mul" /\ IsSparse /\ a.size[2] # b.size[1]) => IsPanic(c)

\* C14: in every engine add(a, b) on operands of different dimensions
\* signals an error and returns no matrix.
C14_AddMismatchPanics ==
  (op = "add" /\ a.size # b.size) => IsPanic(c)

RECURSIVE DenseSum(_, _, _, _)
\* The sum over k in ks of x.data[i][k] * y.data[k][j].
DenseSum(ks, x, y, p) ==
  IF ks = {} THEN 0
  ELSE LET k == CHOOSE k \in ks : TRUE
       IN x.data[p[1]][k] * y.data[k][p[2]] + DenseSum(ks \ {k}, x, y, p)

\* C15: dense mul(a, b) with a.columns = b.rows returns the matrix of
\* dimensions (a.rows, b.columns) whose cell (i,j) is the sum over k of
\* a[i][k] * b[k][j], also when a and b are not square or not of one size.
C15_DenseMulIsProduct ==
  (op = "mul" /\ ~IsSparse /\ a.size[2] = b.size[1]) =>
    /\ IsMatrix(c)
    /\ c.size = <<a.size[1], b.size[2]>>
    /\ \A p \in Cells(<<a.size[1], b.size[2]>>) :
         c.data[p[1]][p[2]] = DenseSum(0..(a.size[2] - 1), a, b, p)

\* C16: dense mul(a, b) with a.columns # b.rows signals an error and
\* returns no matrix, also when a and b have the same non-square dimensions.
C16_DenseMulMismatchPanics ==
  (op = "mul" /\ ~IsSparse /\ a.size[2] # b.size[1]) => IsPanic(c)

\* C17: get on a sparse matrix never fails, at positions inside and outside
\* the declared dimensions: it answers the stored value of the position, 0
\* if none is stored; every position of a matrix made by new reads 0.
C17_SparseGetTotal ==
  IsSparse =>
    /\ op = "get" =>
         LET key == IF a.values.transposed THEN Swap(arg) ELSE arg
         IN /\ ~IsPanic(c)
            /\ c = Ok(IF key \in DOMAIN a.values.map THEN a.values.map[key] ELSE 0)
    /\ op = "new" => \A p \in Pos : Matrix_get(eng, c, p) = Ok(0)

\* get at a position outside the declared dimensions of a transposed
\* matrix that stores a non-zero value there.
C17_Witness ==
  /\ op = "get" /\ IsSparse
  /\ ~InSize(arg, a.size)
  /\ a.values.transposed
  /\ arg \in Stored(a)
  /\ "val" \in DOMAIN c /\ c.val # 0

\* C18: in the dense engine get, set and from_info at a position outside
\* the current dimensions panic; the panicking set leaves the matrix as it
\* was and the panicking get and from_info return nothing.
C18_DenseBoundsErrors ==
  ~IsSparse =>
    /\ (op = "get" /\ ~InSize(arg, a.size)) => IsPanic(c)
    /\ (op = "set" /\ ~InSize(arg[1], a.size)) => (IsPanic(c) /\ b = a)
    /\ (op = "from_info"
          /\ \E i \in 1..Len(arg.values) : ~InSize(arg.values[i][1], arg.size))
         => IsPanic(c)

\* A set on a non-square dense matrix with a non-zero cell, at a position
\* that is inside the transposed dimensions and outside the current ones.
C18_Witness ==
  /\ op = "set" /\ ~IsSparse
  /\ a.size[1] # a.size[2]
  /\ ~InSize(arg[1], a.size) /\ InSize(Swap(arg[1]), a.size)
  /\ arg[2] # 0
  /\ Stored(a) # {}
  /\ IsPanic(c) /\ b = a

\* Whether every entry of x has an entry of y at its position with a value
\* within the tolerance.
Covers(x, y) ==
  \A i \in 1..Len(x.values) : \E j \in 1..Len(y.values) :
    /\ y.values[j][1] = x.values[i][1]
    /\ Abs(y.values[j][2] - x.values[i][2]) <= EPSILON

\* C19: info_eq(expected, current) is true exactly when the dimensions
\* match and every entry of either snapshot has a matching entry in the
\* other; info_eq(expected, current) = info_eq(current, expected).
C19_InfoEqIsEquivalence ==
  op = "info_eq" =>
    /\ res.eq = (/\ ainfo.size = binfo.size
                 /\ Covers(ainfo, binfo)
                 /\ Covers(binfo, ainfo))
    /\ res.eq = res.rev

\* C20: diff(expected, current) holds an item (Some(e), Some(c)) for every
\* position both list with values beyond the tolerance, (None, Some(c)) for
\* every position only current lists, (Some(e), None) for every position
\* only expected lists, and is empty only if the two have the same entries.
C20_DiffReportsEveryDifference ==
  op = "diff" =>
    LET pe == InfoPositions(ainfo)
        pc == InfoPositions(binfo)
        has(item) == \E k \in 1..Len(res) : res[k] = item
    IN /\ \A p \in pe \cap pc :
            Abs(InfoGet(ainfo, p) - InfoGet(binfo, p)) > EPSILON =>
              has(<<p, <<<<InfoGet(ainfo, p)>>, <<InfoGet(binfo, p)>>>>>>)
       /\ \A p \in pc \ pe : has(<<p, <<<<>>, <<InfoGet(binfo, p)>>>>>>)
       /\ \A p \in pe \ pc : has(<<p, <<<<InfoGet(ainfo, p)>>, <<>>>>>>)
       /\ res = <<>> => InfoMap(ainfo) = InfoMap(binfo)

RECURSIVE InfoSum(_, _, _, _)
\* The sum over k in ks of x(i,k) * y(k,j) for two snapshots x and y.
InfoSum(ks, x, y, p) ==
  IF ks = {} THEN 0
  ELSE LET k == CHOOSE k \in ks : TRUE
       IN InfoGet(x, <<p[1], k>>) * InfoGet(y, <<k, p[2]>>) + InfoSum(ks \ {k}, x, y, p)

\* C21: for every engine the helper mul(ainfo, binfo) returns a snapshot of
\* dimensions (A.rows, B.columns) whose value at (i,j) is the sum over k of
\* A(i,k) * B(k,j).
C21_HelperMulIsProduct ==
  op = "res3" =>
    \A n \in 1..3 :
      /\ ~IsPanic(res[n])
      /\ res[n].size = <<ainfo.size[1], binfo.size[2]>>
      /\ \A p \in Cells(res[n].size) :
           InfoGet(res[n], p) = InfoSum(0..(ainfo.size[2] - 1), ainfo, binfo, p)

\* C22: transposed() on a sparse matrix keeps the physical keys and values
\* of the store, flips the flag and swaps the two components of size; after
\* k calls on a constructed matrix the flag is set exactly when k is odd.
C22_TransposedFrame ==
  IsSparse =>
    /\ op = "transposed" =>
         /\ c.values.map = a.values.map
         /\ c.values.transposed = ~a.values.transposed
         /\ c.size = Swap(a.size)
    /\ op \in {"transposed", "transposed_twice"} =>
         c.values.transposed = (calls % 2 = 1)
    /\ op = "continue" => a.values.transposed = (calls % 2 = 1)

\* The third transposed() of a non-square sparse matrix that stores a
\* non-zero entry off the diagonal.
C22_Witness ==
  /\ IsSparse /\ op = "transposed" /\ calls = 3
  /\ c.values.transposed
  /\ a.size[1] # a.size[2]
  /\ \E k \in DOMAIN c.values.map : k[1] # k[2] /\ c.values.map[k] # 0

\* C23: after new(d) in a sparse and in the dense engine and any sequence
\* of the same set (inside the current dimensions), transposed and muls
\* calls on both, the two matrices have equal dimensions and equal get at
\* every position inside them.
C23_SparseDenseLockstep ==
  op # "start" =>
    /\ IsMatrix(b)
    /\ a.size = b.size
    /\ \A p \in Cells(a.size) : Ok(MapMatrix_get(a, p)) = TableMatrix_get(b, p)

\* A set off the diagonal of non-square matrices that were transposed an
\* odd number of times and hold another non-zero cell.
C23_Witness ==
  /\ op = "set" /\ IsMatrix(b)
  /\ a.values.transposed /\ calls = 3
  /\ a.size[1] # a.size[2]
  /\ arg[1][1] # arg[1][2] /\ arg[2] # 0
  /\ \E p \in Cells(a.size) : p # arg[1] /\ MapMatrix_get(a, p) # 0

\* C24: SimpleMatrix::add(a, b).get(p) = a.get(p) + b.get(p) at every
\* position p, also where only b holds a non-zero entry.
C24_SimpleAddIsSum ==
  op = "simple_add" =>
    \A p \in Pos :
      SimpleMatrix_get(c, p) = SimpleMatrix_get(a, p) + SimpleMatrix_get(b, p)

\* Whether every logical position a matrix stores lies inside its size.
InRange(m) == \A p \in Stored(m) : InSize(p, m.size)

\* C25: new gives, and set, transposed and muls keep, a sparse matrix all
\* of whose stored logical positions (r, c) have r < rows and c < columns.
C25_StoredInRange ==
  (IsSparse /\ op \in {"new", "set", "transposed", "muls"}
     /\ (IsMatrix(a) => InRange(a)))
    => InRange(c)

\* C26: whatever the interleaving of allocations, deallocations, reset()
\* and stats(), the diff stats() returns is the number of bytes in use and
\* is not negative; a stats() that runs after a reset() with no allocation
\* or deallocation in between returns alloc = 0, dealloc = 0, diff = 0.
C26_StatsDiffIsInUse ==
  \A t \in Threads :
    thread[t].pc = "stats_ret" =>
      /\ thread[t].stats.diff = thread[t].inuse
      /\ thread[t].stats.diff >= 0
      /\ thread[t].clean =>
           thread[t].stats = [alloc |-> 0, dealloc |-> 0, diff |-> 0]

====
